---------------------------- MODULE Spec2Model ----------------------------
(***************************************************************************)
(* The tag autocomplete control of chz-scout-frontend:                     *)
(*   useDebounce          src/src/hooks/useDebounce.ts                     *)
(*   useTagAutocomplete   src/unnamed/part_002                             *)
(*   fetchTagAutocomplete src/src/services/tagService.ts                   *)
(*   TagAutocomplete      src/src/components/TagAutocomplete.test.tsx      *)
(*                        (the component follows the tests, lines 401-)    *)
(*                                                                         *)
(* One action is one browser task: the event handler (or timer callback,   *)
(* or promise continuation), the re-render it causes and the effects that  *)
(* re-render runs.  Strings are sequences of one-character strings so that *)
(* String.prototype.trim is computed, not assumed.                         *)
(***************************************************************************)
EXTENDS Integers, Sequences, FiniteSets, TLC

----------------------------------------------------------------------------
(* Program constants *)

\* debounceDelay: 300 passed by the component to the hook
DebounceDelay == 300

\* limit: 10 passed by the component to the hook
Limit == 10

----------------------------------------------------------------------------
(* Bounds of the model *)

\* time advances in steps of this many milliseconds
TickLen == 150

\* lookups awaiting their response at one time
MaxInFlight == 2

\* longest batch the Suggestion Source returns
MaxBatch == 2

----------------------------------------------------------------------------
(* Strings *)

sEmpty   == <<>>
sBlank   == <<" ">>
sLOL     == <<"L", "O", "L">>
sLOLPad  == <<" ", "L", "O", "L", " ">>
sLostArk == <<"L", "o", "s", "t", " ", "A", "r", "k">>

\* what the user may type or paste into the input
Queries == {sEmpty, sBlank, sLOL, sLOLPad}

RECURSIVE TrimStart(_)
TrimStart(s) ==
    IF s = <<>> THEN s
    ELSE IF Head(s) = " " THEN TrimStart(Tail(s)) ELSE s

RECURSIVE TrimEnd(_)
TrimEnd(s) ==
    IF s = <<>> THEN s
    ELSE IF s[Len(s)] = " " THEN TrimEnd(SubSeq(s, 1, Len(s) - 1)) ELSE s

\* faulty variant: the blank test looks at the untrimmed query
Trim_None(s) == s

\* String.prototype.trim
Trim(s) == TrimEnd(TrimStart(s))

\* JavaScript truthiness of a string
Truthy(s) == s # <<>>

----------------------------------------------------------------------------
(* Suggestions *)

\* TagAutocompleteResult
TagLOL     == [name |-> sLOL, usageCount |-> 1500]
TagLostArk == [name |-> sLostArk, usageCount |-> 800]
Tags == {TagLOL, TagLostArk}

\* the ordered batches the Suggestion Source may answer with
Batches ==
    {b \in UNION {[1..n -> Tags] : n \in 0..MaxBatch} :
        \A i, j \in DOMAIN b : i # j => b[i] # b[j]}

\* TagType, with NoType for an omitted tagType prop
NoType == "undefined"
TagTypes == {NoType, "CATEGORY", "CUSTOM"}

NoError == "null"

\* ApiResponse.data of /api/v1/tags/suggestions: null or an array
ApiData ==
    {[isNull |-> TRUE, items |-> <<>>]} \cup
    {[isNull |-> FALSE, items |-> b] : b \in Batches}

\* what a rejected request throws: an Error with a message, or something else
Thrown ==
    {[isError |-> TRUE, message |-> "Network Error"],
     [isError |-> FALSE, message |-> ""]}

----------------------------------------------------------------------------
(* State *)

VARIABLES
    mounted,         \* the component has been rendered
    value,           \* prop value: the displayed query, owned by the caller
    tagType,         \* prop tagType: the category filter
    debouncedValue,  \* useDebounce: debouncedValue
    timers,          \* useDebounce: timeouts set and not yet fired or cleared
    suggestions,     \* useTagAutocomplete: suggestions (the batch)
    isLoading,       \* useTagAutocomplete: isLoading
    error,           \* useTagAutocomplete: error
    inflight,        \* number of lookups awaiting their response
    isOpen,          \* TagAutocomplete: isOpen
    selectedIndex,   \* TagAutocomplete: selectedIndex (0-based, -1 is none)
    latestPending,   \* history: the lookup issued last awaits its response
    batchFrom,       \* history: which lookup's response set the batch
    stableFor,       \* history: time since value last changed, capped
    downs,           \* history: ArrowDown presses since the batch was shown
    ev,              \* history: the task that ran last
    requests,        \* history: the lookups the last task issued
    onChangeCalls,   \* history: arguments onChange got from the last task
    onSelectCalls    \* history: arguments onSelect got from the last task

VARIABLES
    count,           \* formatUsageCount: its argument, tag.usageCount
    usageText        \* the text it returned for the row, <<>> before that

VARIABLES
    auth             \* the application once it is loaded: AuthProvider,
                     \* AuthCallbackPage and localStorage, see AuthInitial

VARIABLES
    tagsPage         \* TagsPage once it is rendered, and the server behind
                     \* it, see PageInitial

props == <<mounted, value, tagType>>
debounce == <<debouncedValue, timers>>
hook == <<suggestions, isLoading, error, inflight>>
view == <<isOpen, selectedIndex>>
hist == <<latestPending, batchFrom, stableFor, downs, ev,
          requests, onChangeCalls, onSelectCalls>>
autocomplete == <<props, debounce, hook, view, hist>>
usage == <<count, usageText>>
vars == <<autocomplete, usage, auth, tagsPage>>

\* the state of the parts of the application a step of one part leaves alone
notAutocomplete == <<usage, auth, tagsPage>>
notUsage == <<autocomplete, auth, tagsPage>>
notAuth == <<autocomplete, usage, tagsPage>>
notTagsPage == <<autocomplete, usage, auth>>

Min(a, b) == IF a < b THEN a ELSE b
Max(a, b) == IF a > b THEN a ELSE b

\* op: the handler or callback; i: the suggestion committed (0-based) or -1;
\* cut: a running timer was cleared; os: an onSelect prop was there to call;
\* open: isOpen as the handler found it
Event(op, i, cut, os) ==
    [op |-> op, i |-> i, cut |-> cut, os |-> os, open |-> isOpen]

\* no suggestion row is rendered
UsageIdle ==
    /\ count = [kind |-> "undefined", n |-> 0]
    /\ usageText = <<>>

NoToken == "null"
NoUser == "null"

\* the application before it is loaded: localStorage (accessToken and
\* refreshToken), the route that is rendered, the useState initial values of
\* AuthProvider (user, isLoading) and of AuthCallbackPage (error), the ref
\* isProcessing.current, whether the URL carries a code, the requests
\* awaiting their response (the GET /members/me of the mount effect, the
\* token-exchange POSTs, the handleCallback runs awaiting refreshAuth), and
\* as history the POSTs issued since the page was mounted and the task that
\* ran last
AuthInitial ==
    [loaded |-> FALSE,
     storage |-> [accessToken |-> NoToken, refreshToken |-> NoToken],
     user |-> NoUser,
     authLoading |-> TRUE,
     startupCheck |-> FALSE,
     page |-> "/",
     hasCode |-> FALSE,
     cbError |-> NoError,
     isProcessing |-> FALSE,
     posts |-> 0,
     refreshing |-> 0,
     postsIssued |-> 0,
     authEv |-> "init"]

\* the application is not loaded: it has no state yet
NotLoaded == [loaded |-> FALSE]

\* the state of the application; its fields under the names of the source
App == IF auth.loaded THEN auth ELSE AuthInitial

loaded == auth.loaded
storage == App.storage
user == App.user
authLoading == App.authLoading
startupCheck == App.startupCheck
page == App.page
hasCode == App.hasCode
cbError == App.cbError
isProcessing == App.isProcessing
posts == App.posts
refreshing == App.refreshing
postsIssued == App.postsIssued
authEv == App.authEv

\* the application is not loaded
AuthIdle == auth = NotLoaded

\* a saveChanges run: the lists of the render it was started from (custom,
\* category: the edited ones; changed: the tag types customChanged and
\* categoryChanged are true for), the request it awaits, and as history the
\* tag types it has sent a PATCH for and those whose list on the server a
\* PATCH of it has changed
Run(phase, custom, category, changed) ==
    [phase |-> phase, custom |-> custom, category |-> category,
     changed |-> changed, sent |-> {}, applied |-> {}]

\* a handleNotificationToggle run: its argument, and as history the value
\* notificationEnabled had when it was started
ToggleRun(enabled, before) == [enabled |-> enabled, before |-> before]

\* TagsPage before it is rendered: the useState initial values, the server
\* behind it (the member's tag lists and notification setting), the
\* requests awaiting their response (the GET of fetchTags, the GET of
\* fetchNotificationSettings, the handleNotificationToggle runs, the
\* saveChanges runs), and as history the run the last task settled
PageInitial ==
    [pageMounted |-> FALSE,
     loading |-> TRUE,
     saving |-> FALSE,
     notificationEnabled |-> TRUE,
     notificationToggling |-> FALSE,
     showNotificationModal |-> FALSE,
     selectedTagType |-> "CUSTOM",
     originalCustomTags |-> <<>>,
     originalCategoryTags |-> <<>>,
     customTags |-> <<>>,
     categoryTags |-> <<>>,
     serverCustomTags |-> <<>>,
     serverCategoryTags |-> <<>>,
     serverNotification |-> TRUE,
     tagsFetch |-> FALSE,
     settingsFetch |-> FALSE,
     toggle |-> <<>>,
     saves |-> <<>>,
     pageEv |-> "none"]

\* the page is not part of what is rendered: it has no state yet
NotRendered == [pageMounted |-> FALSE]

\* the state of TagsPage; its fields under the names of the source
Page == IF tagsPage.pageMounted THEN tagsPage ELSE PageInitial

pageMounted == tagsPage.pageMounted
loading == Page.loading
saving == Page.saving
notificationEnabled == Page.notificationEnabled
notificationToggling == Page.notificationToggling
showNotificationModal == Page.showNotificationModal
selectedTagType == Page.selectedTagType
originalCustomTags == Page.originalCustomTags
originalCategoryTags == Page.originalCategoryTags
customTags == Page.customTags
categoryTags == Page.categoryTags
serverCustomTags == Page.serverCustomTags
serverCategoryTags == Page.serverCategoryTags
serverNotification == Page.serverNotification
tagsFetch == Page.tagsFetch
settingsFetch == Page.settingsFetch
toggle == Page.toggle
saves == Page.saves
pageEv == Page.pageEv

\* TagsPage is not rendered
TagsPageIdle == tagsPage = NotRendered

\* useState initial values; nothing is rendered before Mount
InitAutocomplete ==
    /\ mounted = FALSE
    /\ value = sEmpty
    /\ tagType = NoType
    /\ debouncedValue = sEmpty
    /\ timers = {}
    /\ suggestions = <<>>
    /\ isLoading = FALSE
    /\ error = NoError
    /\ inflight = 0
    /\ isOpen = FALSE
    /\ selectedIndex = -1
    /\ latestPending = FALSE
    /\ batchFrom = "none"
    /\ stableFor = 0
    /\ downs = -1
    /\ ev = Event("init", -1, FALSE, FALSE)
    /\ requests = <<>>
    /\ onChangeCalls = <<>>
    /\ onSelectCalls = <<>>

Init ==
    /\ InitAutocomplete
    /\ UsageIdle
    /\ AuthIdle
    /\ TagsPageIdle

----------------------------------------------------------------------------
(* useDebounce *)

\* faulty variant: the effect has no cleanup, the old timeout stays set
ClearTimeout_Leak(ts, v) == ts

\* clearTimeout(handler) in the cleanup of the effect that ran for value v
ClearTimeout(ts, v) == {t \in ts : t.val # v}

\* setTimeout(() => setDebouncedValue(v), delay)
SetTimeout(ts, v) == ts \cup {[val |-> v, remaining |-> DebounceDelay]}

\* the effect on [value, delay]: runs when the caller renders a new value
DebounceEffect(v) ==
    IF v # value
    THEN /\ timers' = SetTimeout(ClearTimeout(timers, value), v)
         /\ stableFor' = 0
    ELSE UNCHANGED <<timers, stableFor>>

\* history: a change of value clears a timeout that was still running and
\* would have settled a query other than the settled one
Cuts(v) ==
    /\ v # value
    /\ \E t \in timers : t.remaining > 0 /\ t.val # debouncedValue

----------------------------------------------------------------------------
(* TagAutocomplete: the effect on [suggestions] *)

SuggestionsEffect(batch) ==
    IF Len(batch) > 0
    THEN /\ isOpen' = TRUE
         /\ selectedIndex' = -1
    ELSE /\ isOpen' = FALSE
         /\ UNCHANGED selectedIndex

\* history: downs counts the ArrowDown presses since a batch was shown, as
\* long as nothing else has moved the cursor or closed the dropdown (else -1)
Shown(batch) == IF Len(batch) > 0 THEN 0 ELSE -1

----------------------------------------------------------------------------
(* fetchTagAutocomplete and useTagAutocomplete *)

\* faulty variant: the tagType parameter is never appended
QueryParams_NoType(params) ==
    [prefix |-> params.prefix, limit |-> params.limit, tagType |-> NoType]

\* the query parameters of GET /api/v1/tags/suggestions
QueryParams(params) ==
    [prefix |-> params.prefix,
     limit |-> params.limit,
     tagType |-> IF params.tagType # NoType THEN params.tagType ELSE NoType]

\* response.data.data || []
Results(data) == IF data.isNull THEN <<>> ELSE data.items

\* err instanceof Error ? err.message : 'Failed to fetch suggestions'
ErrorMessage(err) ==
    IF err.isError THEN err.message ELSE "Failed to fetch suggestions"

\* fetchSuggestions up to its await, run by the effect on [fetchSuggestions]
FetchSuggestions(term, tt) ==
    IF ~Truthy(Trim(term))
    THEN /\ suggestions' = <<>>
         /\ SuggestionsEffect(<<>>)
         /\ batchFrom' = "none"
         /\ downs' = Shown(<<>>)
         /\ requests' = <<>>
         /\ UNCHANGED <<isLoading, error, inflight, latestPending>>
    ELSE /\ inflight < MaxInFlight
         /\ isLoading' = TRUE
         /\ error' = NoError
         /\ inflight' = inflight + 1
         /\ latestPending' = TRUE
         /\ requests' = <<QueryParams(
               [prefix |-> term, tagType |-> tt, limit |-> Limit])>>
         /\ batchFrom' = IF batchFrom = "latest" THEN "earlier" ELSE batchFrom
         /\ UNCHANGED <<suggestions, isOpen, selectedIndex, downs>>

\* the first render: useState initial values, then the effects
Mount(v, tt) ==
    /\ ~mounted
    /\ mounted' = TRUE
    /\ value' = v
    /\ tagType' = tt
    /\ debouncedValue' = v
    /\ timers' = SetTimeout({}, v)
    /\ stableFor' = 0
    /\ FetchSuggestions(v, tt)
    /\ ev' = Event("mount", -1, FALSE, FALSE)
    /\ onChangeCalls' = <<>>
    /\ onSelectCalls' = <<>>
    /\ UNCHANGED notAutocomplete

\* faulty variant: no debounce, every change of the value is looked up at once
HandleInputChange_Eager(v) ==
    /\ mounted
    /\ v # value
    /\ value' = v
    /\ DebounceEffect(v)
    /\ debouncedValue' = v
    /\ FetchSuggestions(v, tagType)
    /\ ev' = Event("type", -1, Cuts(v), FALSE)
    /\ onChangeCalls' = <<v>>
    /\ onSelectCalls' = <<>>
    /\ UNCHANGED <<mounted, tagType>>
    /\ UNCHANGED notAutocomplete

\* handleInputChange: the caller's onChange stores the new value
HandleInputChange(v) ==
    /\ mounted
    /\ v # value
    /\ value' = v
    /\ DebounceEffect(v)
    /\ ev' = Event("type", -1, Cuts(v), FALSE)
    /\ requests' = <<>>
    /\ onChangeCalls' = <<v>>
    /\ onSelectCalls' = <<>>
    /\ UNCHANGED <<mounted, tagType, debouncedValue,
                   hook, view, latestPending, batchFrom, downs>>
    /\ UNCHANGED notAutocomplete

\* the caller renders the component with another tagType
ChangeTagType(tt) ==
    /\ mounted
    /\ tt # tagType
    /\ tagType' = tt
    /\ FetchSuggestions(debouncedValue, tt)
    /\ ev' = Event("tagType", -1, FALSE, FALSE)
    /\ onChangeCalls' = <<>>
    /\ onSelectCalls' = <<>>
    /\ UNCHANGED <<mounted, value, debounce, stableFor>>
    /\ UNCHANGED notAutocomplete

\* time passes; a timeout that is due runs before time passes further
Tick ==
    /\ mounted
    /\ \A t \in timers : t.remaining > 0
    /\ timers # {} \/ stableFor < DebounceDelay
    /\ timers' = {[t EXCEPT !.remaining = Max(0, @ - TickLen)] : t \in timers}
    /\ stableFor' = Min(DebounceDelay, stableFor + TickLen)
    /\ ev' = Event("tick", -1, FALSE, FALSE)
    /\ requests' = <<>>
    /\ onChangeCalls' = <<>>
    /\ onSelectCalls' = <<>>
    /\ UNCHANGED <<props, debouncedValue, hook, view,
                   latestPending, batchFrom, downs>>
    /\ UNCHANGED notAutocomplete

\* the timeout callback: setDebouncedValue(value), and the render it causes
TimerFire(t) ==
    /\ mounted
    /\ t \in timers
    /\ t.remaining = 0
    /\ timers' = timers \ {t}
    /\ debouncedValue' = t.val
    /\ IF t.val # debouncedValue
       THEN FetchSuggestions(t.val, tagType)
       ELSE /\ requests' = <<>>
            /\ UNCHANGED <<hook, view, latestPending, batchFrom, downs>>
    /\ ev' = Event("timer", -1, FALSE, FALSE)
    /\ onChangeCalls' = <<>>
    /\ onSelectCalls' = <<>>
    /\ UNCHANGED <<props, stableFor>>
    /\ UNCHANGED notAutocomplete

\* a response is awaited from the lookup issued last, or from an earlier one
Awaited(latest) ==
    IF latest THEN latestPending
    ELSE inflight > (IF latestPending THEN 1 ELSE 0)

\* fetchSuggestions after its await, the request having succeeded
RespondOk(latest, data) ==
    /\ Awaited(latest)
    /\ inflight' = inflight - 1
    /\ latestPending' = (latestPending /\ ~latest)
    /\ suggestions' = Results(data)
    /\ SuggestionsEffect(Results(data))
    /\ isLoading' = FALSE
    /\ batchFrom' = IF latest THEN "latest" ELSE "earlier"
    /\ downs' = Shown(Results(data))
    /\ ev' = Event("respondOk", -1, FALSE, FALSE)
    /\ requests' = <<>>
    /\ onChangeCalls' = <<>>
    /\ onSelectCalls' = <<>>
    /\ UNCHANGED <<props, debounce, error, stableFor>>
    /\ UNCHANGED notAutocomplete

\* faulty variant: the catch block asks again for the query that failed
RespondFail_Retry(latest, err) ==
    /\ Awaited(latest)
    /\ inflight' = inflight
    /\ latestPending' = TRUE
    /\ error' = ErrorMessage(err)
    /\ suggestions' = <<>>
    /\ SuggestionsEffect(<<>>)
    /\ isLoading' = TRUE
    /\ batchFrom' = IF latest THEN "latest" ELSE "earlier"
    /\ downs' = Shown(<<>>)
    /\ ev' = Event("respondFail", -1, FALSE, FALSE)
    /\ requests' = <<QueryParams(
          [prefix |-> debouncedValue, tagType |-> tagType, limit |-> Limit])>>
    /\ onChangeCalls' = <<>>
    /\ onSelectCalls' = <<>>
    /\ UNCHANGED <<props, debounce, stableFor>>
    /\ UNCHANGED notAutocomplete

\* faulty variant: the catch block hands the failure to the caller by
\* clearing the query through onChange
RespondFail_Propagates(latest, err) ==
    /\ Awaited(latest)
    /\ inflight' = inflight - 1
    /\ latestPending' = (latestPending /\ ~latest)
    /\ error' = ErrorMessage(err)
    /\ suggestions' = <<>>
    /\ SuggestionsEffect(<<>>)
    /\ isLoading' = FALSE
    /\ batchFrom' = IF latest THEN "latest" ELSE "earlier"
    /\ downs' = Shown(<<>>)
    /\ ev' = Event("respondFail", -1, FALSE, FALSE)
    /\ requests' = <<>>
    /\ value' = sEmpty
    /\ DebounceEffect(sEmpty)
    /\ onChangeCalls' = <<sEmpty>>
    /\ onSelectCalls' = <<>>
    /\ UNCHANGED <<mounted, tagType, debouncedValue>>
    /\ UNCHANGED notAutocomplete

\* fetchSuggestions after its await, the request having failed
RespondFail(latest, err) ==
    /\ Awaited(latest)
    /\ inflight' = inflight - 1
    /\ latestPending' = (latestPending /\ ~latest)
    /\ error' = ErrorMessage(err)
    /\ suggestions' = <<>>
    /\ SuggestionsEffect(<<>>)
    /\ isLoading' = FALSE
    /\ batchFrom' = IF latest THEN "latest" ELSE "earlier"
    /\ downs' = Shown(<<>>)
    /\ ev' = Event("respondFail", -1, FALSE, FALSE)
    /\ requests' = <<>>
    /\ onChangeCalls' = <<>>
    /\ onSelectCalls' = <<>>
    /\ UNCHANGED <<props, debounce, stableFor>>
    /\ UNCHANGED notAutocomplete

----------------------------------------------------------------------------
(* TagAutocomplete: event handlers and what is rendered *)

Keys == {"ArrowDown", "ArrowUp", "Enter", "Escape"}

\* history: the ArrowDown count saturates above the longest batch
DownsCap == MaxBatch + 1

\* faulty variant: handleSelectTag without setIsOpen(false)
HandleSelectTag_StaysOpen(tag, os) ==
    /\ value' = tag.name
    /\ DebounceEffect(tag.name)
    /\ UNCHANGED isOpen
    /\ onChangeCalls' = <<tag.name>>
    /\ onSelectCalls' = IF os THEN <<tag>> ELSE <<>>

\* handleSelectTag: onChange(tag.name); setIsOpen(false); if (onSelect)
\* onSelect(tag).  os: the caller passed an onSelect prop to this render
HandleSelectTag(tag, os) ==
    /\ value' = tag.name
    /\ DebounceEffect(tag.name)
    /\ isOpen' = FALSE
    /\ onChangeCalls' = <<tag.name>>
    /\ onSelectCalls' = IF os THEN <<tag>> ELSE <<>>

\* faulty variant: ArrowDown wraps from the last index to the first
ArrowDown_Wrap(prev, n) == IF prev < n - 1 THEN prev + 1 ELSE 0

\* the ArrowDown updater of setSelectedIndex
ArrowDown(prev, n) == IF prev < n - 1 THEN prev + 1 ELSE prev

\* faulty variant: ArrowUp stops at index 0 instead of deselecting
ArrowUp_Stay(prev) == IF prev > 0 THEN prev - 1 ELSE prev

\* the ArrowUp updater of setSelectedIndex
ArrowUp(prev) == IF prev > 0 THEN prev - 1 ELSE -1

\* the guard of the Enter case
EnterCommits(idx, n) == idx >= 0 /\ idx < n

\* faulty variant: the guard forgets that the dropdown may be closed
KeysIgnored_EmptyOnly == Len(suggestions) = 0

\* the early return of handleKeyDown
KeysIgnored == ~isOpen \/ Len(suggestions) = 0

\* faulty variant: Escape also clears the query through onChange
EscapeKey_Clears ==
    /\ isOpen' = FALSE
    /\ value' = sEmpty
    /\ DebounceEffect(sEmpty)
    /\ onChangeCalls' = <<sEmpty>>
    /\ onSelectCalls' = <<>>
    /\ UNCHANGED selectedIndex

\* the Escape case: setIsOpen(false)
EscapeKey ==
    /\ isOpen' = FALSE
    /\ onChangeCalls' = <<>>
    /\ onSelectCalls' = <<>>
    /\ UNCHANGED <<value, timers, stableFor, selectedIndex>>

\* handleKeyDown; onSelect is read by the Enter case that commits only, so
\* os is drawn there and is FALSE elsewhere
HandleKeyDown(key, os) ==
    /\ mounted
    /\ os => /\ key = "Enter"
             /\ ~KeysIgnored
             /\ EnterCommits(selectedIndex, Len(suggestions))
    /\ UNCHANGED notAutocomplete
    /\ IF KeysIgnored
       THEN /\ ev' = Event(key, -1, FALSE, FALSE)
            /\ onChangeCalls' = <<>>
            /\ onSelectCalls' = <<>>
            /\ UNCHANGED <<value, timers, stableFor, view, downs>>
       ELSE CASE key = "ArrowDown" ->
                 /\ selectedIndex' = ArrowDown(selectedIndex, Len(suggestions))
                 /\ downs' = IF downs >= 0 THEN Min(downs + 1, DownsCap) ELSE -1
                 /\ ev' = Event(key, -1, FALSE, FALSE)
                 /\ onChangeCalls' = <<>>
                 /\ onSelectCalls' = <<>>
                 /\ UNCHANGED <<value, timers, stableFor, isOpen>>
              [] key = "ArrowUp" ->
                 /\ selectedIndex' = ArrowUp(selectedIndex)
                 /\ downs' = -1
                 /\ ev' = Event(key, -1, FALSE, FALSE)
                 /\ onChangeCalls' = <<>>
                 /\ onSelectCalls' = <<>>
                 /\ UNCHANGED <<value, timers, stableFor, isOpen>>
              [] key = "Enter" ->
                 IF EnterCommits(selectedIndex, Len(suggestions))
                 THEN /\ HandleSelectTag(suggestions[selectedIndex + 1], os)
                      /\ ev' = Event(key, selectedIndex,
                             Cuts(suggestions[selectedIndex + 1].name), os)
                      /\ UNCHANGED <<selectedIndex, downs>>
                 ELSE /\ ev' = Event(key, -1, FALSE, FALSE)
                      /\ onChangeCalls' = <<>>
                      /\ onSelectCalls' = <<>>
                      /\ UNCHANGED <<value, timers, stableFor, view, downs>>
              [] key = "Escape" ->
                 /\ EscapeKey
                 /\ downs' = -1
                 /\ ev' = Event(key, -1, FALSE, FALSE)
    /\ requests' = <<>>
    /\ UNCHANGED <<mounted, tagType, debouncedValue,
                   hook, latestPending, batchFrom>>

\* the list is rendered: isOpen && suggestions.length > 0
ListRendered == mounted /\ isOpen /\ Len(suggestions) > 0

\* "No tags found" is rendered:
\* isOpen && !isLoading && value.trim() && suggestions.length === 0
EmptyStateRendered ==
    /\ mounted
    /\ isOpen
    /\ ~isLoading
    /\ Truthy(Trim(value))
    /\ Len(suggestions) = 0

\* faulty variant: a click commits the cursor-selected suggestion, if there is one
ClickSuggestion_Cursor(i, os) ==
    /\ ListRendered
    /\ i \in 1..Len(suggestions)
    /\ HandleSelectTag(
         suggestions[IF selectedIndex >= 0 THEN selectedIndex + 1 ELSE i], os)
    /\ ev' = Event("click", i - 1, Cuts(suggestions[i].name), os)
    /\ downs' = -1
    /\ requests' = <<>>
    /\ UNCHANGED <<mounted, tagType, debouncedValue,
                   hook, selectedIndex, latestPending, batchFrom>>
    /\ UNCHANGED notAutocomplete

\* onClick of the button of suggestion i (1-based here), which is rendered
ClickSuggestion(i, os) ==
    /\ ListRendered
    /\ i \in 1..Len(suggestions)
    /\ HandleSelectTag(suggestions[i], os)
    /\ ev' = Event("click", i - 1, Cuts(suggestions[i].name), os)
    /\ downs' = -1
    /\ requests' = <<>>
    /\ UNCHANGED <<mounted, tagType, debouncedValue,
                   hook, selectedIndex, latestPending, batchFrom>>
    /\ UNCHANGED notAutocomplete

\* faulty variant: every mousedown closes the dropdown, also one on the control
HandleClickOutside_Anywhere(inside) ==
    /\ mounted
    /\ isOpen' = FALSE
    /\ downs' = -1
    /\ ev' = Event(IF inside THEN "mousedownInside" ELSE "mousedownOutside",
                    -1, FALSE, FALSE)
    /\ requests' = <<>>
    /\ onChangeCalls' = <<>>
    /\ onSelectCalls' = <<>>
    /\ UNCHANGED <<props, debounce, hook, selectedIndex,
                   latestPending, batchFrom, stableFor>>
    /\ UNCHANGED notAutocomplete

\* handleClickOutside: a mousedown anywhere in the document
HandleClickOutside(inside) ==
    /\ mounted
    /\ IF ~inside
       THEN isOpen' = FALSE /\ downs' = -1
       ELSE UNCHANGED <<isOpen, downs>>
    /\ ev' = Event(IF inside THEN "mousedownInside" ELSE "mousedownOutside",
                    -1, FALSE, FALSE)
    /\ requests' = <<>>
    /\ onChangeCalls' = <<>>
    /\ onSelectCalls' = <<>>
    /\ UNCHANGED <<props, debounce, hook, selectedIndex,
                   latestPending, batchFrom, stableFor>>
    /\ UNCHANGED notAutocomplete

----------------------------------------------------------------------------
(* Specification *)

Next ==
    \/ \E v \in Queries, tt \in TagTypes : Mount(v, tt)
    \/ \E v \in Queries : HandleInputChange(v)
    \/ \E tt \in TagTypes : ChangeTagType(tt)
    \/ Tick
    \/ \E t \in timers : TimerFire(t)
    \/ \E latest \in BOOLEAN, data \in ApiData : RespondOk(latest, data)
    \/ \E latest \in BOOLEAN, err \in Thrown : RespondFail(latest, err)
    \/ \E key \in Keys, os \in BOOLEAN : HandleKeyDown(key, os)
    \/ \E i \in 1..MaxBatch, os \in BOOLEAN : ClickSuggestion(i, os)
    \/ \E inside \in BOOLEAN : HandleClickOutside(inside)

Spec == Init /\ [][Next]_vars

TypeOK ==
    /\ mounted \in BOOLEAN
    /\ isOpen \in BOOLEAN
    /\ isLoading \in BOOLEAN
    /\ latestPending \in BOOLEAN
    /\ inflight \in 0..MaxInFlight
    /\ batchFrom \in {"none", "latest", "earlier"}
    /\ selectedIndex \in -1..(MaxBatch - 1)
    /\ stableFor \in 0..DebounceDelay
    /\ downs \in -1..DownsCap

----------------------------------------------------------------------------
(* TagAutocomplete: formatUsageCount *)

\* the largest count of the range that is formatted, and some counts beyond it
MaxCount == 2000
LargeCounts == {5000, 999950, 1234567}

Undefined == [kind |-> "undefined", n |-> 0]
Null == [kind |-> "null", n |-> 0]
Number(n) == [kind |-> "number", n |-> n]

\* tag.usageCount as it may arrive: a count, or nothing
Counts == {Undefined, Null} \cup {Number(n) : n \in (0..MaxCount) \cup LargeCounts}

Digits == <<"0", "1", "2", "3", "4", "5", "6", "7", "8", "9">>

\* Number.prototype.toString of a non-negative integer
RECURSIVE NumberToString(_)
NumberToString(n) ==
    IF n < 10 THEN <<Digits[n + 1]>>
    ELSE NumberToString(n \div 10) \o <<Digits[(n % 10) + 1]>>

\* the binary exponent of count / 1000: the largest k with 1000 * 2^k <= count
RECURSIVE Exponent(_, _)
Exponent(n, unit) == IF 2 * unit <= n THEN 1 + Exponent(n, 2 * unit) ELSE 0

\* 2^e modulo 1000
RECURSIVE PowMod(_)
PowMod(e) == IF e = 0 THEN 1 ELSE (2 * PowMod(e - 1)) % 1000

\* count / 1000 as a double is the quotient rounded to 53 significant bits:
\* it is below the quotient when the remainder of count * 2^e by 1000 is
\* below a half, e scaling the quotient into [2^52, 2^53)
DoubleBelow(n) ==
    LET r == ((n % 1000) * PowMod(52 - Exponent(n, 1000))) % 1000
    IN  0 < r /\ r < 500

\* (count / 1000).toFixed(1): the number of tenths nearest to the double,
\* the larger one when the double lies exactly between two
Tenths(n) ==
    IF n % 100 # 50 THEN (n + 50) \div 100
    ELSE IF DoubleBelow(n) THEN n \div 100
    ELSE n \div 100 + 1

ToFixed1(n) ==
    NumberToString(Tenths(n) \div 10) \o <<".">> \o NumberToString(Tenths(n) % 10)

\* faulty variant: the k form starts above 1000, not at 1000
FormatUsageCount_Above(c) ==
    IF c.kind # "number" THEN <<"0">>
    ELSE IF c.n > 1000 THEN ToFixed1(c.n) \o <<"k">>
    ELSE NumberToString(c.n)

\* formatUsageCount
FormatUsageCount(c) ==
    IF c.kind # "number" THEN <<"0">>
    ELSE IF c.n >= 1000 THEN ToFixed1(c.n) \o <<"k">>
    ELSE NumberToString(c.n)

\* a row is rendered for a suggestion with this usageCount
RenderRow(c) ==
    /\ count' = c
    /\ usageText' = <<>>
    /\ c # count \/ usageText # <<>>
    /\ UNCHANGED notUsage

\* {formatUsageCount(tag.usageCount)} users
RenderUsage ==
    /\ usageText = <<>>
    /\ usageText' = FormatUsageCount(count)
    /\ UNCHANGED <<count, notUsage>>

InitUsage ==
    /\ InitAutocomplete
    /\ AuthIdle
    /\ TagsPageIdle
    /\ count \in Counts
    /\ usageText = <<>>

NextUsage ==
    \/ \E c \in Counts : RenderRow(c)
    \/ RenderUsage

SpecUsage == InitUsage /\ [][NextUsage]_vars

----------------------------------------------------------------------------
(* AuthProvider and AuthCallbackPage *)

\* how many times the effect of the callback page may run again
MaxEffectRuns == 2

\* tokens left in localStorage by an earlier visit, and the pair the
\* token exchange answers with
OldTokens == [accessToken |-> "old-access", refreshToken |-> "old-refresh"]
NewTokens == [accessToken |-> "new-access", refreshToken |-> "new-refresh"]
NoTokens == [accessToken |-> NoToken, refreshToken |-> NoToken]

\* response.data.data of GET /api/v1/members/me
Member == "member"

Routes == {"/", "/api/auth/callback"}

CodeNotFound == "Authorization code not found"
LoginFailed == "Login failed. Please try again."

\* checkAuthStatus up to its await: TRUE when the GET is issued
ChecksToken(store) == store.accessToken # NoToken

\* faulty variant: the effect as it was before the isProcessing guard
CallbackEffect_NoGuard(app, code) ==
    IF ~code
    THEN [app EXCEPT !.hasCode = code, !.cbError = CodeNotFound]
    ELSE [app EXCEPT !.hasCode = code,
                     !.posts = @ + 1,
                     !.postsIssued = @ + 1]

\* the effect of AuthCallbackPage on [searchParams], run in the state app
CallbackEffect(app, code) ==
    IF ~code
    THEN [app EXCEPT !.hasCode = code, !.cbError = CodeNotFound]
    ELSE IF app.isProcessing
    THEN [app EXCEPT !.hasCode = code]
    ELSE [app EXCEPT !.hasCode = code,
                     !.isProcessing = TRUE,
                     !.posts = @ + 1,
                     !.postsIssued = @ + 1]

\* the application is loaded at a route: the first render, then the effects
\* of AuthCallbackPage (if that is the route) and of AuthProvider
LoadApp(route, code, store) ==
    /\ ~loaded
    /\ LET rendered == [AuthInitial EXCEPT !.loaded = TRUE,
                                           !.page = route,
                                           !.storage = store,
                                           !.authEv = "load"]
           called == IF route = "/api/auth/callback"
                     THEN CallbackEffect(rendered, code)
                     ELSE [rendered EXCEPT !.hasCode = FALSE]
       IN  auth' = IF ChecksToken(store)
                   THEN [called EXCEPT !.startupCheck = TRUE]
                   ELSE [called EXCEPT !.authLoading = FALSE]
    /\ UNCHANGED notAuth

\* searchParams changes, or the effect is run again for another reason
RerunEffect(code) ==
    /\ loaded
    /\ page = "/api/auth/callback"
    /\ postsIssued < MaxEffectRuns
    /\ auth' = [CallbackEffect(auth, code) EXCEPT !.authEv = "effect"]
    /\ UNCHANGED notAuth

\* checkAuthStatus after its await, run by the mount effect: the GET succeeded
StartupCheckOk ==
    /\ startupCheck
    /\ auth' = [auth EXCEPT !.startupCheck = FALSE,
                            !.user = Member,
                            !.authLoading = FALSE,
                            !.authEv = "startupOk"]
    /\ UNCHANGED notAuth

\* checkAuthStatus after its await, run by the mount effect: the GET failed
StartupCheckFail ==
    /\ startupCheck
    /\ auth' = [auth EXCEPT !.startupCheck = FALSE,
                            !.storage = NoTokens,
                            !.authLoading = FALSE,
                            !.authEv = "startupFail"]
    /\ UNCHANGED notAuth

\* faulty variant: handleCallback as it was before refreshAuth was awaited,
\* it navigates as soon as the tokens are stored
PostOk_NoRefresh ==
    /\ posts > 0
    /\ auth' = [auth EXCEPT !.posts = @ - 1,
                            !.storage = NewTokens,
                            !.page = "/",
                            !.authEv = "postOk"]
    /\ UNCHANGED notAuth

\* handleCallback after the POST succeeded: both tokens are stored, then
\* refreshAuth runs checkAuthStatus up to its await
PostOk ==
    /\ posts > 0
    /\ auth' = IF ChecksToken(NewTokens)
               THEN [auth EXCEPT !.posts = @ - 1,
                                 !.storage = NewTokens,
                                 !.refreshing = @ + 1,
                                 !.authEv = "postOk"]
               ELSE [auth EXCEPT !.posts = @ - 1,
                                 !.storage = NewTokens,
                                 !.authLoading = FALSE,
                                 !.page = "/",
                                 !.authEv = "postOk"]
    /\ UNCHANGED notAuth

\* handleCallback after the POST failed: the catch block
PostFail ==
    /\ posts > 0
    /\ auth' = [auth EXCEPT !.posts = @ - 1,
                            !.cbError = LoginFailed,
                            !.authEv = "postFail"]
    /\ UNCHANGED notAuth

\* refreshAuth completes, its GET having succeeded; handleCallback goes on
\* to navigate('/', { replace: true })
RefreshOk ==
    /\ refreshing > 0
    /\ auth' = [auth EXCEPT !.refreshing = @ - 1,
                            !.user = Member,
                            !.authLoading = FALSE,
                            !.page = "/",
                            !.authEv = "refreshOk"]
    /\ UNCHANGED notAuth

\* refreshAuth completes, its GET having failed; handleCallback goes on to
\* navigate('/', { replace: true })
RefreshFail ==
    /\ refreshing > 0
    /\ auth' = [auth EXCEPT !.refreshing = @ - 1,
                            !.storage = NoTokens,
                            !.authLoading = FALSE,
                            !.page = "/",
                            !.authEv = "refreshFail"]
    /\ UNCHANGED notAuth

\* the Go Home button of the error view: navigate('/')
GoHome ==
    /\ loaded
    /\ page = "/api/auth/callback"
    /\ cbError # NoError
    /\ auth' = [auth EXCEPT !.page = "/", !.authEv = "goHome"]
    /\ UNCHANGED notAuth

\* logout: the tokens are removed, the user is cleared, and the assignment
\* to window.location.href loads the application again at '/', which ends
\* every request in flight; the mount effect finds no token
Logout ==
    /\ loaded
    /\ auth' = [auth EXCEPT !.storage = NoTokens,
                            !.user = NoUser,
                            !.page = "/",
                            !.authLoading = FALSE,
                            !.startupCheck = FALSE,
                            !.hasCode = FALSE,
                            !.cbError = NoError,
                            !.isProcessing = FALSE,
                            !.posts = 0,
                            !.refreshing = 0,
                            !.postsIssued = 0,
                            !.authEv = "logout"]
    /\ UNCHANGED notAuth

InitAuth ==
    /\ InitAutocomplete
    /\ UsageIdle
    /\ AuthIdle
    /\ TagsPageIdle

NextAuth ==
    \/ \E route \in Routes, code \in BOOLEAN, store \in {NoTokens, OldTokens} :
           LoadApp(route, code, store)
    \/ \E code \in BOOLEAN : RerunEffect(code)
    \/ StartupCheckOk
    \/ StartupCheckFail
    \/ PostOk
    \/ PostFail
    \/ RefreshOk
    \/ RefreshFail
    \/ GoHome
    \/ Logout

SpecAuth == InitAuth /\ [][NextAuth]_vars

----------------------------------------------------------------------------
(* TagsPage *)

\* how many saveChanges runs may be in flight at once
MaxSaves == 2

PageTagTypes == {"CUSTOM", "CATEGORY"}

\* the names of the tags the autocomplete can hand to handleTagSelect when
\* it is given the tag type t
TagNames(t) == IF t = "CUSTOM" THEN {"LOL", "FPS"} ELSE {"Game"}

AllTagNames == UNION {TagNames(t) : t \in PageTagTypes}

\* the member's tag list of type t as the server may hold it: no name twice
ServerLists(t) == IF t = "CUSTOM" THEN {<<>>, <<"LOL">>} ELSE {<<>>, <<"Game">>}

\* Array.prototype.includes
Includes(list, x) == \E i \in 1..Len(list) : list[i] = x

\* Array.prototype.filter((t) => t !== tagName)
RECURSIVE Without(_, _)
Without(list, x) ==
    IF list = <<>> THEN <<>>
    ELSE IF Head(list) = x THEN Without(Tail(list), x)
    ELSE <<Head(list)>> \o Without(Tail(list), x)

\* customChanged, categoryChanged: the comparison of an edited list with
\* the last-saved one, in hasChanges and in saveChanges
ListChanged(edited, original) ==
    \/ Len(edited) # Len(original)
    \/ \E i \in 1..Len(edited) : ~Includes(original, edited[i])

\* hasChanges
HasChanges ==
    \/ ListChanged(customTags, originalCustomTags)
    \/ ListChanged(categoryTags, originalCategoryTags)

\* faulty variant: the Save button stays enabled while a save is running
SaveEnabled_IgnoresSaving == HasChanges

\* the Save button: disabled={!hasChanges || saving}
SaveEnabled == HasChanges /\ ~saving

\* the page is rendered, not the spinner of isLoading || loading
PageRendered == pageMounted /\ ~authLoading /\ ~loading

\* the application is loaded at /tags by a member who is signed in, the
\* startup check of AuthProvider has succeeded
SignedIn ==
    auth = [AuthInitial EXCEPT !.loaded = TRUE,
                               !.storage = OldTokens,
                               !.user = Member,
                               !.authLoading = FALSE,
                               !.page = "/tags"]

\* the first render of TagsPage and its effect on [isAuthenticated, user]:
\* fetchTags and fetchNotificationSettings up to their await; custom,
\* category, notification: what the server holds for the member
MountTagsPage(custom, category, notification) ==
    /\ ~pageMounted
    /\ tagsPage' = [PageInitial EXCEPT
                       !.pageMounted = TRUE,
                       !.serverCustomTags = custom,
                       !.serverCategoryTags = category,
                       !.serverNotification = notification,
                       !.tagsFetch = (user # NoUser),
                       !.settingsFetch = (user # NoUser)]
    /\ UNCHANGED notTagsPage

\* fetchTags after its await, the GET answered
FetchTagsOk ==
    /\ tagsFetch
    /\ tagsPage' = [tagsPage EXCEPT
                       !.tagsFetch = FALSE,
                       !.originalCustomTags = serverCustomTags,
                       !.originalCategoryTags = serverCategoryTags,
                       !.customTags = serverCustomTags,
                       !.categoryTags = serverCategoryTags,
                       !.loading = FALSE,
                       !.pageEv = "none"]
    /\ UNCHANGED notTagsPage

\* fetchTags after its await, the GET failed
FetchTagsFail ==
    /\ tagsFetch
    /\ tagsPage' = [tagsPage EXCEPT
                       !.tagsFetch = FALSE,
                       !.loading = FALSE,
                       !.pageEv = "none"]
    /\ UNCHANGED notTagsPage

\* fetchNotificationSettings after its await, the GET answered; defined:
\* the answer carries notificationEnabled
FetchSettingsOk(defined) ==
    /\ settingsFetch
    /\ tagsPage' = [tagsPage EXCEPT
                       !.settingsFetch = FALSE,
                       !.notificationEnabled =
                           IF defined THEN serverNotification ELSE @,
                       !.pageEv = "none"]
    /\ UNCHANGED notTagsPage

\* fetchNotificationSettings after its await, the GET failed
FetchSettingsFail ==
    /\ settingsFetch
    /\ tagsPage' = [tagsPage EXCEPT
                       !.settingsFetch = FALSE,
                       !.pageEv = "none"]
    /\ UNCHANGED notTagsPage

\* onChange of the tag type selector
SelectTagType(t) ==
    /\ PageRendered
    /\ tagsPage' = [tagsPage EXCEPT
                       !.selectedTagType = t,
                       !.pageEv = "none"]
    /\ UNCHANGED notTagsPage

\* handleTagSelect, the onSelect of the autocomplete
HandleTagSelect(tagName) ==
    /\ PageRendered
    /\ tagName \in TagNames(selectedTagType)
    /\ tagsPage' =
           IF selectedTagType = "CUSTOM"
           THEN [tagsPage EXCEPT
                    !.customTags = IF Includes(customTags, tagName)
                                   THEN customTags
                                   ELSE Append(customTags, tagName),
                    !.pageEv = "none"]
           ELSE [tagsPage EXCEPT
                    !.categoryTags = IF Includes(categoryTags, tagName)
                                     THEN categoryTags
                                     ELSE Append(categoryTags, tagName),
                    !.pageEv = "none"]
    /\ UNCHANGED notTagsPage

\* removeTag, the button of a tag that is rendered in the list of its type
RemoveTag(tagName, type) ==
    /\ PageRendered
    /\ IF type = "CUSTOM"
       THEN /\ Includes(customTags, tagName)
            /\ tagsPage' = [tagsPage EXCEPT
                               !.customTags = Without(customTags, tagName),
                               !.pageEv = "none"]
       ELSE /\ Includes(categoryTags, tagName)
            /\ tagsPage' = [tagsPage EXCEPT
                               !.categoryTags = Without(categoryTags, tagName),
                               !.pageEv = "none"]
    /\ UNCHANGED notTagsPage

\* onClick of the notification toggle: handleNotificationToggle up to its
\* await, called with !notificationEnabled
ToggleClick ==
    /\ PageRendered
    /\ ~notificationToggling
    /\ tagsPage' = [tagsPage EXCEPT
                       !.notificationToggling = TRUE,
                       !.toggle = Append(toggle,
                           ToggleRun(~notificationEnabled, notificationEnabled)),
                       !.pageEv = "none"]
    /\ UNCHANGED notTagsPage

\* handleNotificationToggle after its await, the PATCH answered
ToggleOk ==
    /\ toggle # <<>>
    /\ tagsPage' = [tagsPage EXCEPT
                       !.serverNotification = Head(toggle).enabled,
                       !.notificationEnabled = Head(toggle).enabled,
                       !.notificationToggling = FALSE,
                       !.toggle = Tail(toggle),
                       !.pageEv = "toggleOk"]
    /\ UNCHANGED notTagsPage

\* handleNotificationToggle after its await, the PATCH failed
ToggleFail ==
    /\ toggle # <<>>
    /\ tagsPage' = [tagsPage EXCEPT
                       !.notificationEnabled = ~Head(toggle).enabled,
                       !.notificationToggling = FALSE,
                       !.toggle = Tail(toggle),
                       !.pageEv = "toggleFail"]
    /\ UNCHANGED notTagsPage

\* the tag types customChanged and categoryChanged are true for
Changed ==
    {t \in PageTagTypes :
        IF t = "CUSTOM"
        THEN ListChanged(customTags, originalCustomTags)
        ELSE ListChanged(categoryTags, originalCategoryTags)}

\* the request saveChanges awaits next, "done" after the last one
AfterNotify(changed) ==
    IF "CUSTOM" \in changed THEN "CUSTOM"
    ELSE IF "CATEGORY" \in changed THEN "CATEGORY"
    ELSE "done"

AfterCustom(changed) == IF "CATEGORY" \in changed THEN "CATEGORY" ELSE "done"

\* the run moves on to the request `phase`, which is sent if it is a PATCH
\* of a tag list
Advance(run, phase) ==
    [run EXCEPT !.phase = phase,
                !.sent = IF phase \in PageTagTypes THEN @ \cup {phase} ELSE @]

RemoveAt(seq, i) == SubSeq(seq, 1, i - 1) \o SubSeq(seq, i + 1, Len(seq))

\* saveChanges up to its first await; with nothing to send it runs to its end
SaveChanges(enableNotification) ==
    /\ user # NoUser
    /\ Len(saves) < MaxSaves
    /\ LET run == Advance(Run("start", customTags, categoryTags, Changed),
                          IF enableNotification THEN "notify"
                          ELSE AfterNotify(Changed))
       IN  tagsPage' =
               IF run.phase = "done"
               THEN [tagsPage EXCEPT
                        !.showNotificationModal = FALSE,
                        !.originalCustomTags = run.custom,
                        !.originalCategoryTags = run.category,
                        !.saving = FALSE,
                        !.pageEv = "saveOk"]
               ELSE [tagsPage EXCEPT
                        !.showNotificationModal = FALSE,
                        !.saving = TRUE,
                        !.saves = Append(saves, run),
                        !.pageEv = "none"]
    /\ UNCHANGED notTagsPage

\* handleSaveClick, the onClick of the Save button
HandleSaveClick ==
    /\ PageRendered
    /\ SaveEnabled
    /\ IF ~notificationEnabled
       THEN /\ tagsPage' = [tagsPage EXCEPT
                               !.showNotificationModal = TRUE,
                               !.pageEv = "none"]
            /\ UNCHANGED notTagsPage
       ELSE SaveChanges(FALSE)

\* the two save buttons of the notification-off modal
ModalSave(enableNotification) ==
    /\ PageRendered
    /\ showNotificationModal
    /\ SaveChanges(enableNotification)

\* the cancel button of the notification-off modal
ModalCancel ==
    /\ PageRendered
    /\ showNotificationModal
    /\ tagsPage' = [tagsPage EXCEPT
                       !.showNotificationModal = FALSE,
                       !.pageEv = "none"]
    /\ UNCHANGED notTagsPage

\* what the server holds after it has applied the request a run awaits
Patched(run) ==
    IF run.phase = "notify"
    THEN [tagsPage EXCEPT !.serverNotification = TRUE,
                          !.notificationEnabled = TRUE]
    ELSE IF run.phase = "CUSTOM"
    THEN [tagsPage EXCEPT !.serverCustomTags = run.custom]
    ELSE [tagsPage EXCEPT !.serverCategoryTags = run.category]

\* saveChanges after an await, the PATCH answered: the server has applied
\* it (and after the PATCH of the setting setNotificationEnabled(true) has
\* run); the run sends its next request, or ends with the last-saved lists
\* set
PatchOk(i) ==
    /\ i <= Len(saves)
    /\ LET run == saves[i]
           next == IF run.phase = "notify" THEN AfterNotify(run.changed)
                   ELSE IF run.phase = "CUSTOM" THEN AfterCustom(run.changed)
                   ELSE "done"
           alters == \/ run.phase = "CUSTOM" /\ run.custom # serverCustomTags
                     \/ run.phase = "CATEGORY"
                        /\ run.category # serverCategoryTags
           after == Advance(
               [run EXCEPT !.applied = IF alters THEN @ \cup {run.phase} ELSE @],
               next)
       IN  tagsPage' =
               IF next = "done"
               THEN [Patched(run) EXCEPT
                        !.originalCustomTags = run.custom,
                        !.originalCategoryTags = run.category,
                        !.saving = FALSE,
                        !.saves = RemoveAt(saves, i),
                        !.pageEv = "saveOk"]
               ELSE [Patched(run) EXCEPT
                        !.saves = [saves EXCEPT ![i] = after],
                        !.pageEv = "none"]
    /\ UNCHANGED notTagsPage

\* saveChanges after an await, the PATCH failed: catch, then finally
PatchFail(i) ==
    /\ i <= Len(saves)
    /\ tagsPage' = [tagsPage EXCEPT
                       !.saving = FALSE,
                       !.saves = RemoveAt(saves, i),
                       !.pageEv = "saveFail"]
    /\ UNCHANGED notTagsPage

\* a member who is signed in is about to open /tags
InitTags ==
    /\ InitAutocomplete
    /\ UsageIdle
    /\ SignedIn
    /\ TagsPageIdle

NextTags ==
    \/ \E custom \in ServerLists("CUSTOM"), category \in ServerLists("CATEGORY"),
          notification \in BOOLEAN :
           MountTagsPage(custom, category, notification)
    \/ FetchTagsOk
    \/ FetchTagsFail
    \/ \E defined \in BOOLEAN : FetchSettingsOk(defined)
    \/ FetchSettingsFail
    \/ \E t \in PageTagTypes : SelectTagType(t)
    \/ \E name \in AllTagNames : HandleTagSelect(name)
    \/ \E name \in AllTagNames, t \in PageTagTypes : RemoveTag(name, t)
    \/ ToggleClick
    \/ ToggleOk
    \/ ToggleFail
    \/ HandleSaveClick
    \/ \E enable \in BOOLEAN : ModalSave(enable)
    \/ ModalCancel
    \/ \E i \in 1..MaxSaves : PatchOk(i)
    \/ \E i \in 1..MaxSaves : PatchFail(i)

SpecTags == InitTags /\ [][NextTags]_vars

----------------------------------------------------------------------------
(* Claims *)

\* the dropdown shows something: the list or the empty-state message
DropdownVisible == ListRendered \/ EmptyStateRendered

\* a lookup is pending: awaiting its response, or scheduled by a timeout
\* that will settle another query
LookupPending ==
    \/ inflight > 0
    \/ isLoading
    \/ \E t \in timers : t.val # debouncedValue

\* C1: when no lookup is in flight, a batch that came from a lookup came
\* from the lookup issued last, never from an earlier one whose response
\* arrived late.
C1_LastIssuedWins ==
    (mounted /\ inflight = 0 /\ batchFrom # "none") => batchFrom = "latest"

\* C2: a lookup is issued only when the displayed query has been unchanged
\* for the full debounce interval.
C2_NoLookupBeforeStable ==
    requests # <<>> => stableFor >= DebounceDelay

\* C3: a change of the displayed query clears the pending timeout and starts
\* a full interval for the new query; the step itself settles nothing and
\* issues no lookup, so what was scheduled for the previous query never runs.
C3_ChangeRestartsTimer ==
    [][(mounted /\ value' # value) =>
          /\ timers' = {[val |-> value', remaining |-> DebounceDelay]}
          /\ debouncedValue' = debouncedValue
          /\ requests' = <<>>]_vars

\* C3 witness: the query was changed while a timeout was still running.
C3_Witness ==
    /\ ev.op = "type"
    /\ ev.cut
    /\ timers = {[val |-> value, remaining |-> DebounceDelay]}

\* C4: the cursor is none (-1) or an index of the current batch.
C4_CursorInRange ==
    \/ selectedIndex = -1
    \/ (0 <= selectedIndex /\ selectedIndex <= Len(suggestions) - 1)

\* C5: the dropdown is visible exactly when the batch is non-empty, or the
\* batch is empty, the query is non-blank and no lookup is pending.
C5_VisibleIff ==
    mounted =>
        (DropdownVisible <=>
            \/ Len(suggestions) > 0
            \/ /\ Len(suggestions) = 0
               /\ Truthy(Trim(value))
               /\ ~LookupPending)

\* C6: once a lookup has completed with an empty batch, the displayed value
\* being non-blank and no lookup pending, the empty-state message is shown.
C6_EmptyStateShown ==
    (/\ ev.op = "respondOk"
     /\ Len(suggestions) = 0
     /\ Truthy(Trim(value))
     /\ ~LookupPending) => EmptyStateRendered

\* C7: Enter with the dropdown open and no cursor changes nothing and calls
\* nothing; with a cursor it calls onChange with that suggestion's name (the
\* caller displays it), closes the dropdown and calls onSelect, if
\* supplied, once with that suggestion.
C7_EnterCommits ==
    [][(ListRendered /\ ev'.op = "Enter") =>
          IF selectedIndex = -1
          THEN /\ onChangeCalls' = <<>>
               /\ onSelectCalls' = <<>>
               /\ value' = value
               /\ isOpen'
          ELSE /\ onChangeCalls' = <<suggestions[selectedIndex + 1].name>>
               /\ value' = suggestions[selectedIndex + 1].name
               /\ ~isOpen'
               /\ onSelectCalls' =
                     IF ev'.os THEN <<suggestions[selectedIndex + 1]>> ELSE <<>>
      ]_vars

\* C7 witness: Enter has committed the cursor-selected suggestion.
C7_Witness ==
    /\ ev.op = "Enter"
    /\ ev.i >= 0
    /\ ~isOpen
    /\ onChangeCalls = <<value>>
    /\ onSelectCalls = <<suggestions[ev.i + 1]>>

\* C8: a click on a rendered suggestion commits that suggestion, whatever
\* the cursor: onChange gets its name, the dropdown closes, and onSelect,
\* if supplied, gets the whole {name, usageCount} of the clicked suggestion.
C8_ClickCommits ==
    [][ev'.op = "click" =>
          /\ ListRendered
          /\ onChangeCalls' = <<suggestions[ev'.i + 1].name>>
          /\ value' = suggestions[ev'.i + 1].name
          /\ ~isOpen'
          /\ onSelectCalls' =
                IF ev'.os THEN <<suggestions[ev'.i + 1]>> ELSE <<>>
      ]_vars

\* C8 witness: a suggestion other than the cursor-selected one was clicked.
C8_Witness ==
    /\ ev.op = "click"
    /\ selectedIndex >= 0
    /\ selectedIndex # ev.i
    /\ onSelectCalls = <<suggestions[ev.i + 1]>>
    /\ onSelectCalls[1].name = value
    /\ ~isOpen

\* C9: after a batch of n >= 1 is shown, k >= 1 presses of ArrowDown and
\* then Enter call onSelect (if supplied) with the suggestion at index
\* min(k, n) - 1 and onChange with its name.
C9_DownsThenEnter ==
    [][(ListRendered /\ downs >= 1 /\ ev'.op = "Enter") =>
          LET tag == suggestions[Min(downs, Len(suggestions))]
          IN /\ onChangeCalls' = <<tag.name>>
             /\ value' = tag.name
             /\ onSelectCalls' = IF ev'.os THEN <<tag>> ELSE <<>>
      ]_vars

\* C9 witness: ArrowDown, ArrowDown, Enter on a batch of two has committed
\* the second suggestion.
C9_Witness ==
    /\ ev.op = "Enter"
    /\ downs = 2
    /\ Len(suggestions) = 2
    /\ onSelectCalls = <<suggestions[2]>>
    /\ value = suggestions[2].name

\* C10: with the dropdown open, ArrowDown moves the cursor one down and
\* does nothing at the last index; ArrowUp moves it one up and from index
\* 0 or from none gives none; the cursor stays within the batch.
C10_ArrowKeys ==
    [][ListRendered =>
          /\ ev'.op = "ArrowDown" =>
                selectedIndex' =
                    IF selectedIndex = Len(suggestions) - 1
                    THEN selectedIndex ELSE selectedIndex + 1
          /\ ev'.op = "ArrowUp" =>
                selectedIndex' =
                    IF selectedIndex <= 0 THEN -1 ELSE selectedIndex - 1
          /\ ev'.op \in {"ArrowDown", "ArrowUp"} =>
                /\ selectedIndex' \in -1..(Len(suggestions) - 1)
                /\ UNCHANGED <<suggestions, isOpen, value>>
      ]_vars

\* C10 witness: ArrowDown was pressed with the cursor on the last index.
C10_Witness ==
    /\ ev.op = "ArrowDown"
    /\ ListRendered
    /\ downs > Len(suggestions)
    /\ selectedIndex = Len(suggestions) - 1

\* C11: whenever a lookup result is applied the cursor is reset to "none",
\* also when the batch it brings is empty.
C11_CursorResetOnBatch ==
    ev.op \in {"respondOk", "respondFail"} => selectedIndex = -1

\* a query with nothing but whitespace in it, the empty query included
IsBlank(s) == \A i \in DOMAIN s : s[i] = " "

\* C12: when the settled query is blank (empty or whitespace only) the batch
\* is set to empty and the Suggestion Source is not called; no lookup is
\* ever issued with a blank prefix.
C12_BlankNoLookup ==
    [][ /\ (/\ mounted'
            /\ <<debouncedValue', tagType', mounted'>> #
                   <<debouncedValue, tagType, mounted>>
            /\ IsBlank(debouncedValue'))
           => /\ suggestions' = <<>>
              /\ requests' = <<>>
              /\ inflight' = inflight
        /\ \A i \in DOMAIN requests' : ~IsBlank(requests'[i].prefix)
      ]_vars

\* C12 witness: a whitespace-only query has settled after a batch had been
\* shown and walked; the batch is empty and nothing was requested.
C12_Witness ==
    /\ ev.op = "timer"
    /\ debouncedValue = sBlank
    /\ suggestions = <<>>
    /\ batchFrom = "none"
    /\ selectedIndex >= 0
    /\ requests = <<>>
    /\ inflight = 0

\* C13: when a lookup fails the batch becomes empty and the error becomes
\* non-null, and the failure itself issues no further lookup; a lookup is
\* only issued by a step that changes the settled query or the category
\* filter (the limit never changes), the first render included.
C13_FailureNoRetry ==
    [][ /\ ev'.op = "respondFail" =>
              /\ suggestions' = <<>>
              /\ error' # NoError
              /\ requests' = <<>>
              /\ inflight' = inflight - 1
        /\ requests' # <<>> =>
              \/ ~mounted
              \/ debouncedValue' # debouncedValue
              \/ tagType' # tagType
      ]_vars

\* C13 witness: the only lookup in flight has failed with an Error; the error
\* message is kept, the batch is empty and nothing is in flight.
C13_Witness ==
    /\ ev.op = "respondFail"
    /\ error = "Network Error"
    /\ suggestions = <<>>
    /\ requests = <<>>
    /\ inflight = 0
    /\ batchFrom = "latest"
    /\ debouncedValue = value
    /\ timers = {}

\* C14: a lookup failure is not propagated to the caller: the step that
\* applies it calls neither onChange nor onSelect and leaves the displayed
\* value alone; while the error is shown input is still accepted, and a later
\* non-blank query that settles issues its lookup and clears the error.
C14_FailureContained ==
    [][ /\ ev'.op = "respondFail" =>
              /\ onChangeCalls' = <<>>
              /\ onSelectCalls' = <<>>
              /\ value' = value
        /\ error # NoError => ENABLED (\E v \in Queries : HandleInputChange(v))
        /\ (/\ error # NoError
            /\ ev'.op = "timer"
            /\ debouncedValue' # debouncedValue
            /\ ~IsBlank(debouncedValue'))
           => /\ requests' = <<QueryParams([prefix |-> debouncedValue',
                                tagType |-> tagType, limit |-> Limit])>>
              /\ error' = NoError
              /\ isLoading'
      ]_vars

\* C14 witness: a lookup has failed with something that is not an Error while
\* the user had typed on; the typed value is still displayed, no callback was
\* called, and its timeout is still set.
C14_Witness ==
    /\ ev.op = "respondFail"
    /\ error = "Failed to fetch suggestions"
    /\ value = sLOLPad
    /\ debouncedValue = sLOL
    /\ timers = {[val |-> sLOLPad, remaining |-> TickLen]}
    /\ onChangeCalls = <<>>
    /\ onSelectCalls = <<>>

\* C15 as stated: the settled query being empty, once a burst of changes has
\* ended and the value has stayed unchanged for the debounce interval, the
\* step that settles the final query issues exactly one lookup, with the
\* final query as prefix and limit 10; the changes and the waiting issue none.
C15_BurstOneLookup ==
    [][ /\ ev'.op \in {"type", "tick"} => requests' = <<>>
        /\ (/\ ev'.op = "timer"
            /\ debouncedValue = sEmpty
            /\ debouncedValue' # debouncedValue)
           => /\ stableFor = DebounceDelay
              /\ Len(requests') = 1
              /\ requests'[1].prefix = value
              /\ requests'[1].limit = Limit
      ]_vars

\* C15 amended: the same for a burst that ends in a non-blank query; a burst
\* that ends in a blank query issues no lookup at all.
C15_BurstOneLookupNonBlank ==
    [][ /\ ev'.op \in {"type", "tick"} => requests' = <<>>
        /\ (/\ ev'.op = "timer"
            /\ debouncedValue = sEmpty
            /\ debouncedValue' # debouncedValue)
           => /\ stableFor = DebounceDelay
              /\ IF IsBlank(value) THEN requests' = <<>>
                 ELSE /\ Len(requests') = 1
                      /\ requests'[1].prefix = value
                      /\ requests'[1].limit = Limit
                      /\ inflight' = inflight + 1
      ]_vars

\* C15 witness: the first query typed after an empty start has settled; the
\* one request of this step carries it, untrimmed, with limit 10, and it is
\* the only lookup in flight.
C15_Witness ==
    /\ ev.op = "timer"
    /\ debouncedValue = sLOLPad
    /\ value = sLOLPad
    /\ stableFor = DebounceDelay
    /\ requests = <<[prefix |-> sLOLPad, limit |-> 10, tagType |-> NoType]>>
    /\ inflight = 1
    /\ batchFrom = "none"
    /\ error = NoError
    /\ selectedIndex = -1
    /\ timers = {}

\* C16: Escape pressed while the dropdown is open closes it without
\* committing: neither onChange nor onSelect is called, and the displayed
\* value and the batch stay as they were.
C16_EscapeCloses ==
    [][ (ListRendered /\ ev'.op = "Escape") =>
            /\ ~isOpen'
            /\ onChangeCalls' = <<>>
            /\ onSelectCalls' = <<>>
            /\ value' = value
            /\ suggestions' = suggestions
      ]_vars

\* C16 witness: Escape found the dropdown open with the cursor on a
\* suggestion; it is closed now, the batch is still there, nothing was called.
C16_Witness ==
    /\ ev.op = "Escape"
    /\ ev.open
    /\ ~isOpen
    /\ Len(suggestions) > 0
    /\ selectedIndex >= 0
    /\ value # suggestions[selectedIndex + 1].name
    /\ onChangeCalls = <<>>
    /\ onSelectCalls = <<>>

\* C17: a pointer press outside the control closes the dropdown without
\* committing (no onChange, no onSelect, the displayed value unchanged), and
\* a pointer press inside the control does not close it.
C17_PressOutsideCloses ==
    [][ /\ ev'.op = "mousedownOutside" =>
              /\ ~isOpen'
              /\ onChangeCalls' = <<>>
              /\ onSelectCalls' = <<>>
              /\ value' = value
        /\ ev'.op = "mousedownInside" =>
              /\ isOpen' = isOpen
              /\ onChangeCalls' = <<>>
              /\ onSelectCalls' = <<>>
              /\ value' = value
      ]_vars

\* C17 witness: a press outside found the dropdown open on a batch of two
\* and closed it; the typed value is still displayed and nothing was called.
C17_Witness ==
    /\ ev.op = "mousedownOutside"
    /\ ev.open
    /\ ~isOpen
    /\ Len(suggestions) = 2
    /\ value \in Queries
    /\ \A i \in DOMAIN suggestions : suggestions[i].name # value
    /\ onChangeCalls = <<>>
    /\ onSelectCalls = <<>>

\* C18: whenever at least one lookup is in flight isLoading is true; it is
\* false only when no lookup remains, overlapping lookups included.
C18_LoadingWhileInFlight == inflight > 0 => isLoading

\* C19: while the dropdown is closed or the batch is empty, ArrowDown,
\* ArrowUp, Enter and Escape have no effect: the cursor, the dropdown
\* visibility and the displayed value stay as they were and no callback is
\* called.
C19_KeysIgnoredWhenClosed ==
    [][ (mounted /\ (~isOpen \/ Len(suggestions) = 0) /\ ev'.op \in Keys) =>
            /\ UNCHANGED <<selectedIndex, isOpen, value, suggestions>>
            /\ onChangeCalls' = <<>>
            /\ onSelectCalls' = <<>>
      ]_vars

\* C19 witness: Enter found the dropdown closed with the cursor on a
\* suggestion of the batch; nothing was committed and it is still closed.
C19_Witness ==
    /\ ev.op = "Enter"
    /\ ~ev.open
    /\ ~isOpen
    /\ Len(suggestions) > 0
    /\ selectedIndex >= 0
    /\ value # suggestions[selectedIndex + 1].name
    /\ onChangeCalls = <<>>
    /\ onSelectCalls = <<>>

\* C20: every lookup carries a prefix that is the trimmed, non-blank query:
\* it is not blank and has no leading or trailing whitespace.
C20_PrefixTrimmed ==
    \A i \in DOMAIN requests :
        /\ ~IsBlank(requests[i].prefix)
        /\ requests[i].prefix[1] # " "
        /\ requests[i].prefix[Len(requests[i].prefix)] # " "

\* C21: every lookup carries the category filter the caller has in effect
\* when it is issued, and none when the caller gave none, together with the
\* limit 10.
C21_RequestCarriesFilter ==
    \A i \in DOMAIN requests :
        /\ requests[i].tagType = tagType
        /\ requests[i].limit = 10

\* C21 witness: the caller changed the filter to CUSTOM while a lookup issued
\* under another filter was in flight; the new lookup carries CUSTOM.
C21_Witness ==
    /\ ev.op = "tagType"
    /\ tagType = "CUSTOM"
    /\ inflight = 2
    /\ requests = <<[prefix |-> debouncedValue, limit |-> 10,
                     tagType |-> "CUSTOM"]>>

\* C22: a usage count of 1000 or more is rendered as the count divided by
\* 1000 to one decimal place, followed by "k" (1500 as "1.5k", 5000 as
\* "5.0k", 1000 as "1.0k"); a count below 1000 as the plain integer (42 as
\* "42", 999 as "999"); an undefined or missing count as "0".
C22_UsageCountFormat ==
    usageText # <<>> =>
        /\ count.kind # "number" => usageText = <<"0">>
        /\ (count.kind = "number" /\ count.n < 1000) =>
               usageText = NumberToString(count.n)
        /\ (count.kind = "number" /\ count.n >= 1000) =>
               \E t \in (count.n \div 100)..(count.n \div 100 + 1) :
                   /\ 100 * t - count.n \in -50..50
                   /\ usageText = NumberToString(t \div 10) \o <<".">> \o
                                  NumberToString(t % 10) \o <<"k">>
        /\ count = Number(1500) => usageText = <<"1", ".", "5", "k">>
        /\ count = Number(5000) => usageText = <<"5", ".", "0", "k">>
        /\ count = Number(1000) => usageText = <<"1", ".", "0", "k">>
        /\ count = Number(42) => usageText = <<"4", "2">>
        /\ count = Number(999) => usageText = <<"9", "9", "9">>

\* C22 witness: the count 1500 has been rendered as "1.5k".
C22_Witness ==
    /\ count = Number(1500)
    /\ usageText = <<"1", ".", "5", "k">>

\* C23: once a blank query has settled the batch is empty, and it stays
\* empty until a non-blank query settles, also when the response of a lookup
\* issued before the query became blank arrives afterwards.
C23_BlankStaysEmpty ==
    (mounted /\ IsBlank(debouncedValue)) => suggestions = <<>>

\* C24: after a commit has closed the dropdown it stays closed until the
\* user edits the input again.  A displayed value that is not one of the
\* queries the user types was put there by a commit and has not been edited
\* since; here it has settled and every lookup has been answered.
C24_ClosedAfterCommit ==
    (/\ mounted
     /\ value \notin Queries
     /\ debouncedValue = value
     /\ inflight = 0
     /\ batchFrom = "latest")
    => ~isOpen

\* C25: in every reachable state of AuthProvider a user that is set
\* (isAuthenticated) implies an access token in storage.
C25_AuthenticatedHasToken ==
    user # NoUser => storage.accessToken # NoToken

\* C27: on the OAuth callback page the token-exchange POST is issued at most
\* once per page mount however often the effect runs again; a run of the
\* effect that finds no code in the URL issues no request and shows the
\* error.
C27_OneExchangePerMount ==
    [][ /\ postsIssued' <= 1
        /\ (authEv' \in {"load", "effect"} /\ page' = "/api/auth/callback") =>
              IF hasCode'
              THEN /\ isProcessing'
                   /\ postsIssued' = 1
                   /\ posts' = posts + (IF isProcessing THEN 0 ELSE 1)
              ELSE /\ posts' = posts
                   /\ postsIssued' = postsIssued
                   /\ cbError' = CodeNotFound
      ]_vars

\* C27 witness: the effect has run again with a code while the POST of its
\* first run was in flight; one POST has been issued.
C27_Witness ==
    /\ authEv = "effect"
    /\ hasCode
    /\ isProcessing
    /\ posts = 1
    /\ postsIssued = 1
    /\ cbError = NoError

\* C28: a successful token exchange stores both tokens and only then starts
\* refreshAuth, without navigating; the page navigates to '/' by itself only
\* when a refreshAuth completes; a failed exchange stores no token, sets the
\* error message and does not navigate.
C28_ExchangeThenRefreshThenNavigate ==
    [][ /\ authEv' = "postOk" =>
              /\ storage' = NewTokens
              /\ refreshing' = refreshing + 1
              /\ page' = page
        /\ authEv' = "postFail" =>
              /\ storage' = storage
              /\ cbError' = LoginFailed
              /\ page' = page
              /\ refreshing' = refreshing
        /\ (page = "/api/auth/callback" /\ page' = "/") =>
              \/ authEv' \in {"refreshOk", "refreshFail"} /\ refreshing > 0
              \/ authEv' \in {"goHome", "logout"}
      ]_vars

\* C28 witness: refreshAuth has completed with the new tokens in storage and
\* the page has navigated to '/'.
C28_Witness ==
    /\ authEv = "refreshOk"
    /\ page = "/"
    /\ storage = NewTokens
    /\ user = Member
    /\ refreshing = 0
    /\ posts = 0

\* the names in a tag list
SetOf(list) == {list[i] : i \in 1..Len(list)}

\* the tag types whose list of a saveChanges run differs, as a set, from the
\* last-saved list
Differing(run) ==
    {t \in PageTagTypes :
        IF t = "CUSTOM"
        THEN SetOf(run.custom) # SetOf(originalCustomTags)
        ELSE SetOf(run.category) # SetOf(originalCategoryTags)}

\* C26: a saveChanges run sends a PATCH only for the tag types whose edited
\* list differs from the last-saved one; when every request succeeded the
\* last-saved lists become the lists of the run, whatever the user edited
\* meanwhile; when a request failed both last-saved lists are unchanged and
\* the run has changed no tag list on the server.
C26_SaveAllOrNothing ==
    [][ /\ \A i \in 1..Len(saves') : saves'[i].sent \subseteq Differing(saves'[i])
        /\ (pageEv' = "saveOk" /\ saves' = saves) =>
              /\ Changed = {}
              /\ originalCustomTags' = customTags
              /\ originalCategoryTags' = categoryTags
        /\ (pageEv' = "saveOk" /\ saves' # saves) =>
              \E i \in 1..Len(saves) :
                  /\ saves' = RemoveAt(saves, i)
                  /\ saves[i].sent = Differing(saves[i])
                  /\ originalCustomTags' = saves[i].custom
                  /\ originalCategoryTags' = saves[i].category
        /\ pageEv' = "saveFail" =>
              \E i \in 1..Len(saves) :
                  /\ saves' = RemoveAt(saves, i)
                  /\ originalCustomTags' = originalCustomTags
                  /\ originalCategoryTags' = originalCategoryTags
                  /\ saves[i].applied = {}
      ]_vars

\* C29: the Save control of the tags page is enabled exactly when the edited
\* custom list or the edited category list differs, as a set, from the
\* last-saved one and no save is in progress; so at most one saveChanges run
\* is in flight at any time, the runs started from the notification-off
\* modal included.
C29_SaveControl ==
    /\ PageRendered =>
          (SaveEnabled <=>
              /\ \/ SetOf(customTags) # SetOf(originalCustomTags)
                 \/ SetOf(categoryTags) # SetOf(originalCategoryTags)
              /\ saves = <<>>)
    /\ Len(saves) <= 1

\* C29 witness: a run started from the modal with "enable notifications and
\* save" awaits its first response, the lists still differ from the
\* last-saved ones, and the Save control is disabled.
C29_Witness ==
    /\ PageRendered
    /\ Len(saves) = 1
    /\ saves[1].phase = "notify"
    /\ SetOf(customTags) # SetOf(originalCustomTags)
    /\ ~SaveEnabled

\* C30: when the request of a notification toggle settles,
\* notificationEnabled is the requested value if it succeeded and the value
\* it had before the toggle if it failed, and either way it is the setting
\* the server holds, however the toggle interleaves with the settings fetch
\* and with "enable notifications and save".
C30_ToggleSettles ==
    [][ /\ pageEv' = "toggleOk" =>
              /\ notificationEnabled' = Head(toggle).enabled
              /\ notificationEnabled' = serverNotification'
        /\ pageEv' = "toggleFail" =>
              /\ notificationEnabled' = Head(toggle).before
              /\ notificationEnabled' = serverNotification'
      ]_vars

============================================================================
